---- MODULE Spec2Model ----
(***************************************************************************)
(* Model of the LEMAS survey aggregation read_lemas_weight                 *)
(* (data_prep_functions.py) as a pipeline over an in-memory table, of its  *)
(* variant read_lemas, and of aggregate_spotlite_to_state_long.            *)
(*                                                                         *)
(* A table cell is a tuple: <<v>> holds the value v, <<>> is pandas' NaN   *)
(* (a blank cell of the file, or a value read_csv turned into NaN).        *)
(* A data frame is [columns |-> set of names, rows |-> sequence of         *)
(* functions from the columns to cells].  Survey weights and counts are    *)
(* integers; the completion rate is held in percent (0.6 is 60).  A        *)
(* quotient of two numbers is the record Quot builds, which keeps the      *)
(* three outcomes of a floating-point division apart: a finite value, an   *)
(* infinity (x/0) and NaN (0/0).                                           *)
(***************************************************************************)
EXTENDS Integers, Sequences, FiniteSets, TLC

VARIABLES file, return_strata_counts, pc, lemas, dropped,
          dem_by_state, binary_cols_by_state, lemas_by_state,
          key, df_county, df_state, df_long

vars == <<file, return_strata_counts, pc, lemas, dropped,
          dem_by_state, binary_cols_by_state, lemas_by_state,
          key, df_county, df_state, df_long>>

\* The frames of aggregate_spotlite_to_state_long, which the LEMAS functions
\* leave alone.
spotlite_vars == <<df_county, df_state, df_long>>

\* Largest number of agency rows in an input file.
MaxRows == 2

\* lemas['COMPLETE'] > 0.6, in percent.
CompleteThreshold == 60

-----------------------------------------------------------------------------
(* Cells and arithmetic on them *)

NA == <<>>

IsNa(c) == c = NA

Val(c) == c[1]

Num(n) == <<n>>

\* Series comparisons: a comparison with NaN is False.
Gt(c, n) == ~IsNa(c) /\ Val(c) > n

Ge(c, n) == ~IsNa(c) /\ Val(c) >= n

Eq(c, n) == ~IsNa(c) /\ Val(c) = n

\* Series product: NaN if either factor is NaN.
Mul(a, b) == IF IsNa(a) \/ IsNa(b) THEN NA ELSE Num(Val(a) * Val(b))

Abs(n) == IF n < 0 THEN -n ELSE n

Sgn(n) == IF n > 0 THEN 1 ELSE IF n < 0 THEN -1 ELSE 0

RECURSIVE GCD(_, _)
GCD(a, b) == IF b = 0 THEN a ELSE GCD(b, a % b)

\* Floating-point division n / d of two numbers: 0/0 is NaN (num 0, den 0),
\* x/0 is +-inf (num +-1, den 0), anything else the fraction in lowest terms.
Quot(n, d) ==
    IF d = 0 THEN [num |-> Sgn(n), den |-> 0]
    ELSE LET g == GCD(Abs(n), Abs(d))
         IN [num |-> (Sgn(d) * n) \div g, den |-> Abs(d) \div g]

-----------------------------------------------------------------------------
(* Column vocabulary *)

columns == {"STATE", "STRATA", "FTSWORN", "PTSWORN", "PERS_FEMALE",
            "PERS_BLACK_FEM", "PERS_BLACK_MALE", "PERS_HISP_FEM", "PERS_HISP_MALE",
            "POL_CCRB", "CIV_COMPL", "CP_SURV_POLICY", "FDBK_POLICY",
            "FINALWGT", "SAMPLINGWEIGHT", "COMPLETE"}

rename_columns(c) ==
    CASE c = "POL_CCRB" -> "CCRB"
      [] c = "CIV_COMPL" -> "CCRB"
      [] c = "CP_SURV_POLICY" -> "CFDBK_POLICY"
      [] c = "FDBK_POLICY" -> "CFDBK_POLICY"
      [] c = "FINALWGT" -> "WEIGHT"
      [] c = "SAMPLINGWEIGHT" -> "WEIGHT"
      [] OTHER -> c

\* The table with 207 sent to 14 instead of 13.
strata_map_207_to_14 ==
    (101 :> 1) @@ (102 :> 2) @@ (103 :> 3) @@ (104 :> 4) @@ (105 :> 5) @@
    (106 :> 6) @@ (107 :> 7) @@
    (201 :> 8) @@ (202 :> 9) @@ (203 :> 10) @@ (204 :> 11) @@ (205 :> 12) @@
    (206 :> 13) @@ (207 :> 14) @@
    (301 :> 15)

\* The table with 301 sent to 201, a code the table maps again.
strata_map_301_to_201 ==
    (101 :> 1) @@ (102 :> 2) @@ (103 :> 3) @@ (104 :> 4) @@ (105 :> 5) @@
    (106 :> 6) @@ (107 :> 7) @@
    (201 :> 8) @@ (202 :> 9) @@ (203 :> 10) @@ (204 :> 11) @@ (205 :> 12) @@
    (206 :> 13) @@ (207 :> 13) @@
    (301 :> 201)

strata_map_2016_to_2020 ==
    (101 :> 1) @@ (102 :> 2) @@ (103 :> 3) @@ (104 :> 4) @@ (105 :> 5) @@
    (106 :> 6) @@ (107 :> 7) @@
    (201 :> 8) @@ (202 :> 9) @@ (203 :> 10) @@ (204 :> 11) @@ (205 :> 12) @@
    (206 :> 13) @@ (207 :> 13) @@
    (301 :> 15)

ag_demo_cols == <<"FTSWORN", "PERS_FEMALE", "PERS_BLACK_FEM", "PERS_BLACK_MALE",
                  "PERS_HISP_FEM", "PERS_HISP_MALE">>

\* The texts a STATE cell takes in the model's files, in the order groupby
\* sorts its keys.
States == <<"-8", "CA", "NY">>

-----------------------------------------------------------------------------
(* read_csv and the quality filter *)

na_values == {-8, -9}

\* na_values as read_csv matches them against the text of a cell.
na_text == {"-8", "-9"}

\* read_csv without na_values: only a blank cell is NaN.
ParseCell_blank_only(col, c) == c

ParseCell(col, c) ==
    IF c = NA THEN NA
    ELSE IF col = "STATE"
         THEN (IF Val(c) \in na_text THEN NA ELSE c)
         ELSE (IF Val(c) \in na_values THEN NA ELSE c)

\* dtype of the STRATA column as read_csv infers it.
ReadDtype(rows) ==
    IF rows = <<>> \/ "STRATA" \notin DOMAIN rows[1] THEN "object"
    ELSE IF \E i \in DOMAIN rows : IsNa(rows[i]["STRATA"]) THEN "float64"
    ELSE "int64"

\* pd.read_csv(usecols=..., na_values=[-8, -9]) followed by rename(columns=...).
read_csv(f) ==
    LET used == f.header \cap columns
        raw(c) == CHOOSE h \in used : rename_columns(h) = c
        cols == {rename_columns(h) : h \in used}
        rows == [i \in 1..Len(f.rows) |->
                   [c \in cols |-> ParseCell(c, f.rows[i][raw(c)])]]
    IN [columns |-> cols, rows |-> rows, strata_dtype |-> ReadDtype(rows)]

\* The row mask of the quality filter.
Keep(r) ==
    (Gt(r["FTSWORN"], 0) \/ Ge(r["PTSWORN"], 2)) /\ Gt(r["COMPLETE"], CompleteThreshold)

QualityFilter(df) ==
    IF "COMPLETE" \in df.columns
    THEN [df EXCEPT !.rows = SelectSeq(@, Keep)]
    ELSE df

-----------------------------------------------------------------------------
(* Strata harmonization *)

\* Series.max(): NaN entries are skipped; NaN when nothing is left.
RECURSIVE SeriesMax(_, _)
SeriesMax(rows, col) ==
    IF rows = <<>> THEN NA
    ELSE LET h == Head(rows)[col]
             t == SeriesMax(Tail(rows), col)
         IN IF IsNa(h) THEN t
            ELSE IF IsNa(t) THEN h
            ELSE IF Val(h) >= Val(t) THEN h ELSE t

\* Series.map(strata_map_2016_to_2020).fillna(original) on one cell.
MapStrata(c) ==
    IF IsNa(c) THEN NA
    ELSE IF Val(c) \in DOMAIN strata_map_2016_to_2020
         THEN Num(strata_map_2016_to_2020[Val(c)])
         ELSE c

\* dtype after map(...).fillna(...): map yields float64 as soon as one value
\* has no image in the table.
MapDtype(rows, dtype) ==
    IF \E i \in DOMAIN rows :
          IsNa(rows[i]["STRATA"]) \/ Val(rows[i]["STRATA"]) \notin DOMAIN strata_map_2016_to_2020
    THEN "float64"
    ELSE "int64"

HarmonizeStrata(df) ==
    IF Gt(SeriesMax(df.rows, "STRATA"), 15)
    THEN [df EXCEPT
            !.rows = [i \in DOMAIN df.rows |->
                        [df.rows[i] EXCEPT !["STRATA"] = MapStrata(@)]],
            !.strata_dtype = MapDtype(df.rows, @)]
    ELSE df

-----------------------------------------------------------------------------
(* Weighting and the group-by-state reduction *)

Range(s) == {s[i] : i \in DOMAIN s}

apply_weight(df, cols, weight_col) ==
    LET new == {"W_" \o c : c \in Range(cols)}
        base(w) == CHOOSE c \in Range(cols) : "W_" \o c = w
        all == df.columns \cup new
    IN [df EXCEPT
          !.columns = all,
          !.rows = [i \in DOMAIN df.rows |->
                      [c \in all |->
                         IF c \in new
                         THEN Mul(df.rows[i][base(c)], df.rows[i][weight_col])
                         ELSE df.rows[i][c]]]]

\* [col for col in lemas.columns if col.startswith('W_')]
weighted_cols(df) == {c \in df.columns : \E b \in Range(ag_demo_cols) : c = "W_" \o b}

\* The keys of groupby('STATE'): sorted, rows whose key is NaN left out.
GroupKeys(df) ==
    SelectSeq(States, LAMBDA s : \E i \in DOMAIN df.rows : df.rows[i]["STATE"] = Num(s))

Group(df, s) == SelectSeq(df.rows, LAMBDA r : r["STATE"] = Num(s))

\* Series.sum(): NaN entries are skipped, the sum of nothing is 0.
RECURSIVE SumCol(_, _)
SumCol(rows, col) ==
    IF rows = <<>> THEN 0
    ELSE (IF IsNa(Head(rows)[col]) THEN 0 ELSE Val(Head(rows)[col]))
         + SumCol(Tail(rows), col)

\* lemas.groupby('STATE', as_index=False)[cols].sum()
groupby_sum(df, cols) ==
    LET keys == GroupKeys(df)
        out == {"STATE"} \cup cols
    IN [columns |-> out,
        rows |-> [k \in 1..Len(keys) |->
                    [c \in out |->
                       IF c = "STATE" THEN Num(keys[k])
                       ELSE Num(SumCol(Group(df, keys[k]), c))]]]

\* weighted_binary with the weights of the responding agencies alone in the
\* denominator (the mean of the flag over responders).
weighted_binary_responders(rows, col, weight_col) ==
    LET flagged == SelectSeq(rows, LAMBDA r : Eq(r[col], 1))
        answered == SelectSeq(rows, LAMBDA r : ~IsNa(r[col]))
    IN Quot(SumCol(flagged, weight_col), SumCol(answered, weight_col))

weighted_binary(rows, col, weight_col) ==
    LET flagged == SelectSeq(rows, LAMBDA r : Eq(r[col], 1))
    IN Quot(SumCol(flagged, weight_col), SumCol(rows, weight_col))

\* groupby_apply with each flag rate normalised by the weight of the whole
\* table instead of the weight of the state.
groupby_apply_whole_table(df) ==
    LET keys == GroupKeys(df)
        out == {"STATE", "CCRB", "CFDBK_POLICY"}
        flagged(s, c) == SelectSeq(Group(df, s), LAMBDA r : Eq(r[c], 1))
    IN IF Len(keys) = 0
       THEN [columns |-> df.columns, rows |-> <<>>]
       ELSE [columns |-> out,
             rows |-> [k \in 1..Len(keys) |->
                         [c \in out |->
                            IF c = "STATE" THEN Num(keys[k])
                            ELSE Quot(SumCol(flagged(keys[k], c), "WEIGHT"),
                                      SumCol(df.rows, "WEIGHT"))]]]

\* lemas.groupby('STATE', as_index=False).apply(...).reset_index(drop=True).
\* With no group at all, apply never calls the function and hands back an
\* empty frame that has the columns of lemas.
groupby_apply(df) ==
    LET keys == GroupKeys(df)
        out == {"STATE", "CCRB", "CFDBK_POLICY"}
    IN IF Len(keys) = 0
       THEN [columns |-> df.columns, rows |-> <<>>]
       ELSE [columns |-> out,
             rows |-> [k \in 1..Len(keys) |->
                         [c \in out |->
                            IF c = "STATE" THEN Num(keys[k])
                            ELSE weighted_binary(Group(df, keys[k]), c, "WEIGHT")]]]

-----------------------------------------------------------------------------
(* Merge *)

RECURSIVE Flatten(_)
Flatten(ss) == IF ss = <<>> THEN <<>> ELSE Head(ss) \o Flatten(Tail(ss))

\* A merge that pairs every row of the left frame with every row of the right
\* one, whatever their states (how='cross').
merge_cross(left, right) ==
    LET rcols == right.columns \ {"STATE"}
        out == left.columns \cup rcols
        join(l, r) == [c \in out |-> IF c \in left.columns THEN l[c] ELSE r[c]]
    IN [columns |-> out,
        rows |-> Flatten([i \in DOMAIN left.rows |->
                            [j \in DOMAIN right.rows |-> join(left.rows[i], right.rows[j])]])]

\* pd.merge(left, right, on='STATE'): inner join in the order of the left
\* keys; a column the two sides share gets the suffixes _x and _y.
merge(left, right) ==
    LET overlap == (left.columns \cap right.columns) \ {"STATE"}
        lname(c) == IF c \in overlap THEN c \o "_x" ELSE c
        rname(c) == IF c \in overlap THEN c \o "_y" ELSE c
        lcols == left.columns \ {"STATE"}
        rcols == right.columns \ {"STATE"}
        out == {"STATE"} \cup {lname(c) : c \in lcols} \cup {rname(c) : c \in rcols}
        join(l, r) ==
            [c \in out |->
               IF c = "STATE" THEN l["STATE"]
               ELSE IF \E b \in lcols : lname(b) = c
                    THEN l[CHOOSE b \in lcols : lname(b) = c]
                    ELSE r[CHOOSE b \in rcols : rname(b) = c]]
        matches(l) ==
            LET rs == SelectSeq(right.rows, LAMBDA r : r["STATE"] = l["STATE"])
            IN [j \in DOMAIN rs |-> join(l, rs[j])]
    IN [columns |-> out,
        rows |-> Flatten([i \in DOMAIN left.rows |-> matches(left.rows[i])])]

-----------------------------------------------------------------------------
(* Derived ratios and the strata breakdown *)

\* Series division; both operands are sums here, hence numbers.
Div(a, b) == IF IsNa(a) \/ IsNa(b) THEN Quot(0, 0) ELSE Quot(Val(a), Val(b))

Add(a, b) == IF IsNa(a) \/ IsNa(b) THEN NA ELSE Num(Val(a) + Val(b))

ordered_cols == {"STATE", "YEAR", "W_FTSWORN", "%_FEMALE", "%_BLACK", "%_HISP",
                 "CCRB", "CFDBK_POLICY"}

\* The columns the ratio step reads from the merged frame.
RatioInputs == {"W_" \o c : c \in Range(ag_demo_cols)}

\* YEAR, the three shares, and the selection of ordered_cols.
derived_ratios(df, year) ==
    [columns |-> ordered_cols,
     rows |-> [i \in DOMAIN df.rows |->
        LET r == df.rows[i]
        IN [c \in ordered_cols |->
              CASE c = "YEAR" -> Num(year)
                [] c = "%_FEMALE" -> Div(r["W_PERS_FEMALE"], r["W_FTSWORN"])
                [] c = "%_BLACK" ->
                     Div(Add(r["W_PERS_BLACK_FEM"], r["W_PERS_BLACK_MALE"]), r["W_FTSWORN"])
                [] c = "%_HISP" ->
                     Div(Add(r["W_PERS_HISP_FEM"], r["W_PERS_HISP_MALE"]), r["W_FTSWORN"])
                [] OTHER -> r[c]]]]

\* f'STRATA_{c}': the label of a strata code, as the dtype of the column prints it.
StrataLabel(code, dtype) ==
    "STRATA_" \o ToString(code) \o (IF dtype = "float64" THEN ".0" ELSE "")

\* The rows pd.crosstab counts: those with both a state and a strata code.
Counted(df) == SelectSeq(df.rows, LAMBDA r : ~IsNa(r["STATE"]) /\ ~IsNa(r["STRATA"]))

StrataCodes(df) == {Val(Counted(df)[i]["STRATA"]) : i \in DOMAIN Counted(df)}

\* A crosstab that leaves the cell of a (state, code) pair without agencies
\* empty instead of writing 0.
crosstab_sparse(df) ==
    LET counted == Counted(df)
        keys == SelectSeq(States,
                          LAMBDA s : \E i \in DOMAIN counted : counted[i]["STATE"] = Num(s))
        codes == StrataCodes(df)
        label(c) == StrataLabel(c, df.strata_dtype)
        code(l) == CHOOSE c \in codes : label(c) = l
        out == {"STATE"} \cup {label(c) : c \in codes}
        count(s, c) ==
            Len(SelectSeq(counted, LAMBDA r : r["STATE"] = Num(s) /\ r["STRATA"] = Num(c)))
    IN [columns |-> out,
        rows |-> [k \in 1..Len(keys) |->
                    [l \in out |->
                       IF l = "STATE" THEN Num(keys[k])
                       ELSE IF count(keys[k], code(l)) = 0 THEN NA
                       ELSE Num(count(keys[k], code(l)))]]]

\* pd.crosstab(lemas['STATE'], lemas['STRATA']).reset_index(): a dense table,
\* one row per state and one column per code that occur in a counted row, a
\* cell without agencies being 0.
crosstab(df) ==
    LET counted == Counted(df)
        keys == SelectSeq(States,
                          LAMBDA s : \E i \in DOMAIN counted : counted[i]["STATE"] = Num(s))
        codes == StrataCodes(df)
        label(c) == StrataLabel(c, df.strata_dtype)
        code(l) == CHOOSE c \in codes : label(c) = l
        out == {"STATE"} \cup {label(c) : c \in codes}
        count(s, c) ==
            Len(SelectSeq(counted, LAMBDA r : r["STATE"] = Num(s) /\ r["STRATA"] = Num(c)))
    IN [columns |-> out,
        rows |-> [k \in 1..Len(keys) |->
                    [l \in out |->
                       IF l = "STATE" THEN Num(keys[k])
                       ELSE Num(count(keys[k], code(l)))]]]

\* pd.merge(left, right, on='STATE', how='left'): every left row is kept; one
\* without a match gets NaN in the columns of the right frame.
merge_left(left, right) ==
    LET rcols == right.columns \ {"STATE"}
        out == left.columns \cup rcols
        match(l) == SelectSeq(right.rows, LAMBDA r : r["STATE"] = l["STATE"])
        join(l, r) == [c \in out |-> IF c \in left.columns THEN l[c] ELSE r[c]]
        nomatch(l) == [c \in out |-> IF c \in left.columns THEN l[c] ELSE NA]
        rowsof(l) ==
            IF match(l) = <<>> THEN <<nomatch(l)>>
            ELSE [j \in DOMAIN match(l) |-> join(l, match(l)[j])]
    IN [columns |-> out,
        rows |-> Flatten([i \in DOMAIN left.rows |-> rowsof(left.rows[i])])]

-----------------------------------------------------------------------------
(* The whole function *)

\* read_lemas_weight(filepath, return_strata_counts): the steps in order.  The
\* result is the returned frame, or the KeyError the ratio step raises.
read_lemas_weight(f, strata_counts) ==
    LET filtered == QualityFilter(read_csv(f))
        weighted == apply_weight(HarmonizeStrata(filtered), ag_demo_cols, "WEIGHT")
        merged == merge(groupby_sum(weighted, weighted_cols(weighted)),
                        groupby_apply(weighted))
        by_state == derived_ratios(merged, f.year)
    IN IF ~(RatioInputs \subseteq merged.columns)
       THEN [raised |-> "KeyError", frame |-> merged]
       ELSE [raised |-> "",
             frame |-> IF strata_counts
                       THEN merge_left(by_state, crosstab(weighted))
                       ELSE by_state]

-----------------------------------------------------------------------------
(* Input files *)

\* The headers of the model's files.  A file of the 2016 instrument names the
\* flags and the weight POL_CCRB, CP_SURV_POLICY, FINALWGT and carries COMPLETE;
\* a file of the 2020 instrument names them CIV_COMPL, FDBK_POLICY,
\* SAMPLINGWEIGHT and is taken to have no COMPLETE column.
Shared == {"STATE", "STRATA", "FTSWORN", "PTSWORN", "PERS_FEMALE",
           "PERS_BLACK_FEM", "PERS_BLACK_MALE", "PERS_HISP_FEM", "PERS_HISP_MALE"}

Header(year) ==
    IF year = 2016
    THEN Shared \cup {"POL_CCRB", "CP_SURV_POLICY", "FINALWGT", "COMPLETE"}
    ELSE Shared \cup {"CIV_COMPL", "FDBK_POLICY", "SAMPLINGWEIGHT"}

\* A file of the given year whose rows hold the cells of agencies; year is
\* int(filepath[-8:-4]).
MkFile(year, agencies) ==
    [year |-> year,
     header |-> Header(year),
     rows |-> [i \in DOMAIN agencies |->
                 [h \in Header(year) |-> agencies[i][rename_columns(h)]]]]

Base ==
    [STATE |-> Num("CA"), STRATA |-> Num(5), FTSWORN |-> Num(1), PTSWORN |-> Num(0),
     PERS_FEMALE |-> Num(0), PERS_BLACK_FEM |-> Num(0), PERS_BLACK_MALE |-> Num(0),
     PERS_HISP_FEM |-> Num(0), PERS_HISP_MALE |-> Num(0),
     CCRB |-> NA, CFDBK_POLICY |-> NA, WEIGHT |-> Num(1), COMPLETE |-> Num(100)]

EmptyFrame == [columns |-> {}, rows |-> <<>>]

InitWith(years, agencies) ==
    /\ \E y \in years : \E n \in 0..MaxRows : \E rs \in [1..n -> agencies] :
          file = MkFile(y, rs)
    /\ return_strata_counts \in BOOLEAN
    /\ pc = "read_csv"
    /\ lemas = EmptyFrame
    /\ dropped = NA
    /\ dem_by_state = EmptyFrame
    /\ binary_cols_by_state = EmptyFrame
    /\ lemas_by_state = EmptyFrame
    /\ key = ""
    /\ df_county = EmptyFrame
    /\ df_state = EmptyFrame
    /\ df_long = EmptyFrame

-----------------------------------------------------------------------------
(* read_lemas_weight, one action per step *)

\* The columns a step looks up in lemas by name, in the order it does.  The
\* filter reads the sworn counts only under 'COMPLETE' in lemas.columns; the
\* function handed to apply reads the flags only when there is a group to call
\* it on.
Reads(step, frame) ==
    CASE step = "filter" ->
           IF "COMPLETE" \in frame.columns THEN <<"FTSWORN", "PTSWORN">> ELSE <<>>
      [] step = "strata" -> <<"STRATA">>
      [] step = "apply_weight" -> <<Head(ag_demo_cols), "WEIGHT">> \o Tail(ag_demo_cols)
      [] step = "groupby_sum" -> <<"STATE">>
      [] step = "groupby_apply" ->
           IF GroupKeys(frame) # <<>> THEN <<"CCRB", "CFDBK_POLICY">> ELSE <<>>
      [] OTHER -> <<>>

\* Those of them the frame lacks.
Absent(step, frame) == SelectSeq(Reads(step, frame), LAMBDA c : c \notin frame.columns)

ReadCsv ==
    /\ pc = "read_csv"
    /\ lemas' = read_csv(file)
    /\ pc' = "filter"
    /\ UNCHANGED <<file, return_strata_counts, dropped,
                   dem_by_state, binary_cols_by_state, lemas_by_state>>
    /\ UNCHANGED <<key, spotlite_vars>>

Filter ==
    /\ pc = "filter"
    /\ Absent(pc, lemas) = <<>>
    /\ lemas' = QualityFilter(lemas)
    /\ dropped' = IF "COMPLETE" \in lemas.columns
                  THEN Num(Len(lemas.rows) - Len(lemas'.rows))
                  ELSE dropped
    /\ pc' = "strata"
    /\ UNCHANGED <<file, return_strata_counts,
                   dem_by_state, binary_cols_by_state, lemas_by_state>>
    /\ UNCHANGED <<key, spotlite_vars>>

Harmonize ==
    /\ pc = "strata"
    /\ Absent(pc, lemas) = <<>>
    /\ lemas' = HarmonizeStrata(lemas)
    /\ pc' = "apply_weight"
    /\ UNCHANGED <<file, return_strata_counts, dropped,
                   dem_by_state, binary_cols_by_state, lemas_by_state>>
    /\ UNCHANGED <<key, spotlite_vars>>

ApplyWeight ==
    /\ pc = "apply_weight"
    /\ Absent(pc, lemas) = <<>>
    /\ lemas' = apply_weight(lemas, ag_demo_cols, "WEIGHT")
    /\ pc' = "groupby_sum"
    /\ UNCHANGED <<file, return_strata_counts, dropped,
                   dem_by_state, binary_cols_by_state, lemas_by_state>>
    /\ UNCHANGED <<key, spotlite_vars>>

GroupBySum ==
    /\ pc = "groupby_sum"
    /\ Absent(pc, lemas) = <<>>
    /\ dem_by_state' = groupby_sum(lemas, weighted_cols(lemas))
    /\ pc' = "groupby_apply"
    /\ UNCHANGED <<file, return_strata_counts, dropped, lemas,
                   binary_cols_by_state, lemas_by_state>>
    /\ UNCHANGED <<key, spotlite_vars>>

GroupByApply ==
    /\ pc = "groupby_apply"
    /\ Absent(pc, lemas) = <<>>
    /\ binary_cols_by_state' = groupby_apply(lemas)
    /\ pc' = "merge"
    /\ UNCHANGED <<file, return_strata_counts, dropped, lemas,
                   dem_by_state, lemas_by_state>>
    /\ UNCHANGED <<key, spotlite_vars>>

Merge ==
    /\ pc = "merge"
    /\ lemas_by_state' = merge(dem_by_state, binary_cols_by_state)
    /\ pc' = "ratios"
    /\ UNCHANGED <<file, return_strata_counts, dropped, lemas,
                   dem_by_state, binary_cols_by_state>>
    /\ UNCHANGED <<key, spotlite_vars>>

\* lemas_by_state['W_PERS_FEMALE'] on a merged frame that lacks the column.
RaiseKeyError ==
    /\ pc = "ratios"
    /\ ~(RatioInputs \subseteq lemas_by_state.columns)
    /\ pc' = "KeyError"
    /\ key' = "W_PERS_FEMALE"
    /\ UNCHANGED <<file, return_strata_counts, dropped, lemas,
                   dem_by_state, binary_cols_by_state, lemas_by_state>>
    /\ UNCHANGED spotlite_vars

DerivedRatios ==
    /\ pc = "ratios"
    /\ RatioInputs \subseteq lemas_by_state.columns
    /\ lemas_by_state' = derived_ratios(lemas_by_state, file.year)
    /\ pc' = "strata_counts"
    /\ UNCHANGED <<file, return_strata_counts, dropped, lemas,
                   dem_by_state, binary_cols_by_state>>
    /\ UNCHANGED <<key, spotlite_vars>>

StrataCounts ==
    /\ pc = "strata_counts"
    /\ return_strata_counts
    /\ lemas_by_state' = merge_left(lemas_by_state, crosstab(lemas))
    /\ pc' = "done"
    /\ UNCHANGED <<file, return_strata_counts, dropped, lemas,
                   dem_by_state, binary_cols_by_state>>
    /\ UNCHANGED <<key, spotlite_vars>>

Return ==
    /\ pc = "strata_counts"
    /\ ~return_strata_counts
    /\ pc' = "done"
    /\ UNCHANGED <<file, return_strata_counts, dropped, lemas,
                   dem_by_state, binary_cols_by_state, lemas_by_state>>
    /\ UNCHANGED <<key, spotlite_vars>>

\* lemas[c] for a column c that the file did not have: KeyError(c).
RaiseMissingColumn ==
    /\ Absent(pc, lemas) # <<>>
    /\ pc' = "KeyError"
    /\ key' = Head(Absent(pc, lemas))
    /\ UNCHANGED <<file, return_strata_counts, dropped, lemas,
                   dem_by_state, binary_cols_by_state, lemas_by_state>>
    /\ UNCHANGED spotlite_vars

Next ==
    \/ ReadCsv
    \/ Filter
    \/ Harmonize
    \/ ApplyWeight
    \/ GroupBySum
    \/ GroupByApply
    \/ Merge
    \/ RaiseKeyError
    \/ DerivedRatios
    \/ StrataCounts
    \/ Return

-----------------------------------------------------------------------------
(* Files on which the weighted flag rates are exercised: two states, flags
   1, 0 and blank, weights 10 and 20. *)

RateAgencies ==
    {[Base EXCEPT !.STATE = Num(s), !.CCRB = c, !.CFDBK_POLICY = f, !.WEIGHT = Num(w)] :
        s \in {"CA", "NY"}, c \in {Num(1), Num(0), NA}, f \in {Num(1), NA}, w \in {10, 20}}

InitRate == InitWith({2016}, RateAgencies)

SpecRate == InitRate /\ [][Next]_vars

(* Files on which the quality filter is exercised: both instruments (with and
   without COMPLETE), sworn counts on both sides of the thresholds, a
   completion rate of exactly 0.6 and of 1.0, a negative count, a zero weight. *)

FilterAgencies ==
    {[Base EXCEPT !.FTSWORN = Num(ft), !.PTSWORN = Num(pt), !.COMPLETE = Num(cr),
                  !.PERS_FEMALE = Num(fem), !.WEIGHT = Num(w)] :
        ft \in {0, 1, -1}, pt \in {1, 2}, cr \in {60, 100}, fem \in {1, -1}, w \in {1, 0}}

InitFilter == InitWith({2016, 2020}, FilterAgencies)

SpecFilter == InitFilter /\ [][Next]_vars

(* Files on which the weighted sums and the demographic shares are exercised:
   agencies kept for their part-time officers, with a state or without one,
   with 0, 1 or no full-time officers, and a few demographic profiles. *)

Profiles ==
    {[PERS_FEMALE |-> 0, PERS_BLACK_FEM |-> 0, PERS_BLACK_MALE |-> 0,
      PERS_HISP_FEM |-> 0, PERS_HISP_MALE |-> 0],
     [PERS_FEMALE |-> 1, PERS_BLACK_FEM |-> 0, PERS_BLACK_MALE |-> 1,
      PERS_HISP_FEM |-> 0, PERS_HISP_MALE |-> 0],
     [PERS_FEMALE |-> 2, PERS_BLACK_FEM |-> 1, PERS_BLACK_MALE |-> 1,
      PERS_HISP_FEM |-> 1, PERS_HISP_MALE |-> 1]}

DemoAgencies ==
    {[Base EXCEPT !.STATE = s, !.FTSWORN = ft, !.PTSWORN = Num(2), !.WEIGHT = Num(w),
                  !.PERS_FEMALE = Num(p.PERS_FEMALE),
                  !.PERS_BLACK_FEM = Num(p.PERS_BLACK_FEM),
                  !.PERS_BLACK_MALE = Num(p.PERS_BLACK_MALE),
                  !.PERS_HISP_FEM = Num(p.PERS_HISP_FEM),
                  !.PERS_HISP_MALE = Num(p.PERS_HISP_MALE)] :
        s \in {Num("CA"), Num("NY"), NA}, ft \in {Num(0), Num(1), NA},
        w \in {1, 2}, p \in Profiles}

InitDemo == InitWith({2016}, DemoAgencies)

SpecDemo == InitDemo /\ [][Next]_vars

(* Files on which the weights themselves vary: positive, zero, negative, blank. *)

WeightAgencies ==
    {[Base EXCEPT !.STATE = Num(s), !.CCRB = c, !.CFDBK_POLICY = Num(1), !.WEIGHT = w] :
        s \in {"CA", "NY"}, c \in {Num(1), NA}, w \in {Num(2), Num(0), Num(-1), NA}}

InitWeight == InitWith({2016}, WeightAgencies)

SpecWeight == InitWeight /\ [][Next]_vars

(* Files on which the strata codes vary: a 2020 code, 2016 codes of the table,
   a code above 15 that the table lacks, and a blank. *)

StrataAgencies ==
    {[Base EXCEPT !.STATE = s, !.STRATA = c] :
        s \in {Num("CA"), Num("NY"), NA},
        c \in {Num(5), Num(101), Num(207), Num(301), Num(999), NA}}

InitStrata == InitWith({2016}, StrataAgencies)

SpecStrata == InitStrata /\ [][Next]_vars

(* Files with nonresponse codes: a fully answered agency, and the same agency
   with -8 or -9 in one field (or two). *)

Answered ==
    [STATE |-> Num("CA"), STRATA |-> Num(5), FTSWORN |-> Num(3), PTSWORN |-> Num(2),
     PERS_FEMALE |-> Num(1), PERS_BLACK_FEM |-> Num(1), PERS_BLACK_MALE |-> Num(1),
     PERS_HISP_FEM |-> Num(1), PERS_HISP_MALE |-> Num(1),
     CCRB |-> Num(1), CFDBK_POLICY |-> Num(1), WEIGHT |-> Num(2), COMPLETE |-> Num(100)]

SentinelAgencies ==
    {Answered, [Answered EXCEPT !.STATE = Num("NY")]}
    \cup {[Answered EXCEPT ![c] = Num(-8)] :
            c \in {"FTSWORN", "PERS_FEMALE", "PERS_BLACK_MALE", "PERS_HISP_FEM",
                   "CCRB", "WEIGHT"}}
    \cup {[Answered EXCEPT ![c] = Num(-9)] :
            c \in {"STRATA", "PTSWORN", "PERS_BLACK_FEM", "PERS_HISP_MALE",
                   "CFDBK_POLICY", "COMPLETE"}}
    \cup {[Answered EXCEPT !.FTSWORN = Num(-9), !.PTSWORN = Num(-8)],
          [Answered EXCEPT !.STATE = Num("-8")]}

InitSentinel == InitWith({2016}, SentinelAgencies)

SpecSentinel == InitSentinel /\ [][Next]_vars

-----------------------------------------------------------------------------
(* read_lemas, the variant that sums the unweighted counts, one action per step *)

\* lemas.groupby('STATE').agg({c: 'sum' for the six counts}).reset_index()
groupby_agg(frame) == groupby_sum(frame, Range(ag_demo_cols))

\* lemas.groupby('STATE', as_index=False).apply(..., include_groups=False)
\* .reset_index(drop=True), the function being weighted_binary(x, col) with the
\* default weight_col='WEIGHT'.  With no group at all the empty frame handed
\* back has the columns of lemas other than STATE.
groupby_apply_exclude_groups(frame) ==
    LET keys == GroupKeys(frame)
        out == {"STATE", "CCRB", "CFDBK_POLICY"}
    IN IF Len(keys) = 0
       THEN [columns |-> frame.columns \ {"STATE"}, rows |-> <<>>]
       ELSE [columns |-> out,
             rows |-> [k \in 1..Len(keys) |->
                         [c \in out |->
                            IF c = "STATE" THEN Num(keys[k])
                            ELSE weighted_binary(Group(frame, keys[k]), c, "WEIGHT")]]]

ordered_columns == {"STATE", "YEAR", "FTSWORN", "%_FEMALE", "%_BLACK", "%_HISP",
                    "CCRB", "CFDBK_POLICY"}

\* YEAR, the three shares of the unweighted sums, and the selection of
\* ordered_columns.
unweighted_ratios(frame, year) ==
    [columns |-> ordered_columns,
     rows |-> [i \in DOMAIN frame.rows |->
        LET r == frame.rows[i]
        IN [c \in ordered_columns |->
              CASE c = "YEAR" -> Num(year)
                [] c = "%_FEMALE" -> Div(r["PERS_FEMALE"], r["FTSWORN"])
                [] c = "%_BLACK" ->
                     Div(Add(r["PERS_BLACK_FEM"], r["PERS_BLACK_MALE"]), r["FTSWORN"])
                [] c = "%_HISP" ->
                     Div(Add(r["PERS_HISP_FEM"], r["PERS_HISP_MALE"]), r["FTSWORN"])
                [] OTHER -> r[c]]]]

ReadLemasReadCsv ==
    /\ pc = "read_lemas"
    /\ lemas' = read_csv(file)
    /\ pc' = "read_lemas.filter"
    /\ UNCHANGED <<file, return_strata_counts, dropped,
                   dem_by_state, binary_cols_by_state, lemas_by_state>>
    /\ UNCHANGED <<key, spotlite_vars>>

ReadLemasFilter ==
    /\ pc = "read_lemas.filter"
    /\ lemas' = QualityFilter(lemas)
    /\ dropped' = IF "COMPLETE" \in lemas.columns
                  THEN Num(Len(lemas.rows) - Len(lemas'.rows))
                  ELSE dropped
    /\ pc' = "read_lemas.strata"
    /\ UNCHANGED <<file, return_strata_counts,
                   dem_by_state, binary_cols_by_state, lemas_by_state>>
    /\ UNCHANGED <<key, spotlite_vars>>

ReadLemasHarmonize ==
    /\ pc = "read_lemas.strata"
    /\ lemas' = HarmonizeStrata(lemas)
    /\ pc' = "read_lemas.agg"
    /\ UNCHANGED <<file, return_strata_counts, dropped,
                   dem_by_state, binary_cols_by_state, lemas_by_state>>
    /\ UNCHANGED <<key, spotlite_vars>>

ReadLemasAgg ==
    /\ pc = "read_lemas.agg"
    /\ dem_by_state' = groupby_agg(lemas)
    /\ pc' = "read_lemas.apply"
    /\ UNCHANGED <<file, return_strata_counts, dropped, lemas,
                   binary_cols_by_state, lemas_by_state>>
    /\ UNCHANGED <<key, spotlite_vars>>

ReadLemasApply ==
    /\ pc = "read_lemas.apply"
    /\ binary_cols_by_state' = groupby_apply_exclude_groups(lemas)
    /\ pc' = "read_lemas.merge"
    /\ UNCHANGED <<file, return_strata_counts, dropped, lemas,
                   dem_by_state, lemas_by_state>>
    /\ UNCHANGED <<key, spotlite_vars>>

\* pd.merge(..., on='STATE') with a right frame that has no STATE column.
ReadLemasRaiseKeyError ==
    /\ pc = "read_lemas.merge"
    /\ "STATE" \notin binary_cols_by_state.columns
    /\ pc' = "read_lemas.KeyError"
    /\ key' = "STATE"
    /\ UNCHANGED <<file, return_strata_counts, dropped, lemas,
                   dem_by_state, binary_cols_by_state, lemas_by_state>>
    /\ UNCHANGED spotlite_vars

ReadLemasMerge ==
    /\ pc = "read_lemas.merge"
    /\ "STATE" \in binary_cols_by_state.columns
    /\ lemas_by_state' = merge(dem_by_state, binary_cols_by_state)
    /\ pc' = "read_lemas.ratios"
    /\ UNCHANGED <<file, return_strata_counts, dropped, lemas,
                   dem_by_state, binary_cols_by_state>>
    /\ UNCHANGED <<key, spotlite_vars>>

ReadLemasRatios ==
    /\ pc = "read_lemas.ratios"
    /\ lemas_by_state' = unweighted_ratios(lemas_by_state, file.year)
    /\ pc' = "read_lemas.strata_counts"
    /\ UNCHANGED <<file, return_strata_counts, dropped, lemas,
                   dem_by_state, binary_cols_by_state>>
    /\ UNCHANGED <<key, spotlite_vars>>

ReadLemasStrataCounts ==
    /\ pc = "read_lemas.strata_counts"
    /\ return_strata_counts
    /\ lemas_by_state' = merge_left(lemas_by_state, crosstab(lemas))
    /\ pc' = "read_lemas.done"
    /\ UNCHANGED <<file, return_strata_counts, dropped, lemas,
                   dem_by_state, binary_cols_by_state>>
    /\ UNCHANGED <<key, spotlite_vars>>

ReadLemasReturn ==
    /\ pc = "read_lemas.strata_counts"
    /\ ~return_strata_counts
    /\ pc' = "read_lemas.done"
    /\ UNCHANGED <<file, return_strata_counts, dropped, lemas,
                   dem_by_state, binary_cols_by_state, lemas_by_state>>
    /\ UNCHANGED <<key, spotlite_vars>>

NextReadLemas ==
    \/ ReadLemasReadCsv
    \/ ReadLemasFilter
    \/ ReadLemasHarmonize
    \/ ReadLemasAgg
    \/ ReadLemasApply
    \/ ReadLemasRaiseKeyError
    \/ ReadLemasMerge
    \/ ReadLemasRatios
    \/ ReadLemasStrataCounts
    \/ ReadLemasReturn

(* Files on which read_lemas is exercised: two states, agencies with 1 or 3
   full-time sworn officers, weights 1 and 2, the CCRB flag 1 or blank. *)

OfficerAgencies ==
    {[Base EXCEPT !.STATE = Num(s), !.FTSWORN = Num(ft), !.WEIGHT = Num(w),
                  !.CCRB = c, !.CFDBK_POLICY = Num(1)] :
        s \in {"CA", "NY"}, ft \in {1, 3}, w \in {1, 2}, c \in {Num(1), NA}}

InitReadLemas ==
    /\ \E n \in 0..MaxRows : \E rs \in [1..n -> OfficerAgencies] :
          file = MkFile(2016, rs)
    /\ return_strata_counts \in BOOLEAN
    /\ pc = "read_lemas"
    /\ lemas = EmptyFrame
    /\ dropped = NA
    /\ dem_by_state = EmptyFrame
    /\ binary_cols_by_state = EmptyFrame
    /\ lemas_by_state = EmptyFrame
    /\ key = ""
    /\ df_county = EmptyFrame
    /\ df_state = EmptyFrame
    /\ df_long = EmptyFrame

SpecReadLemas == InitReadLemas /\ [][NextReadLemas]_vars

(* Files that lack one column of the header (or none): both instruments, two
   states, an agency the filter drops. *)

DropColumn(f, h) ==
    [f EXCEPT !.header = @ \ {h},
              !.rows = [i \in DOMAIN f.rows |-> [c \in f.header \ {h} |-> f.rows[i][c]]]]

MissingAgencies ==
    {[Base EXCEPT !.STATE = Num(s), !.CCRB = c, !.COMPLETE = Num(cr)] :
        s \in {"CA", "NY"}, c \in {Num(1), NA}, cr \in {100, 50}}

InitMissing ==
    /\ \E y \in {2016, 2020} : \E n \in 0..MaxRows : \E rs \in [1..n -> MissingAgencies] :
          \E h \in Header(y) \cup {"none"} :
             file = DropColumn(MkFile(y, rs), h)
    /\ return_strata_counts \in BOOLEAN
    /\ pc = "read_csv"
    /\ lemas = EmptyFrame
    /\ dropped = NA
    /\ dem_by_state = EmptyFrame
    /\ binary_cols_by_state = EmptyFrame
    /\ lemas_by_state = EmptyFrame
    /\ key = ""
    /\ df_county = EmptyFrame
    /\ df_state = EmptyFrame
    /\ df_long = EmptyFrame

NextMissing == Next \/ RaiseMissingColumn

SpecMissing == InitMissing /\ [][NextMissing]_vars

(* Files on which the set of output states is exercised: agencies of two
   states and without a state, retained or dropped by the filter. *)

StateAgencies ==
    {[Base EXCEPT !.STATE = s, !.COMPLETE = Num(cr), !.CCRB = c] :
        s \in {Num("CA"), Num("NY"), NA}, cr \in {100, 50}, c \in {Num(1), NA}}

InitStates == InitWith({2016}, StateAgencies)

SpecStates == InitStates /\ [][Next]_vars

(* Files on which the runs on the state partitions are compared with the run
   on the whole file: two states, weights 1 and 2, the CCRB flag 1 or blank,
   and an agency with a 2016 strata code, one without a strata code, one the
   filter drops, one without a state. *)

PartitionAgencies ==
    {[Base EXCEPT !.STATE = Num(s), !.WEIGHT = Num(w), !.CCRB = c] :
        s \in {"CA", "NY"}, w \in {1, 2}, c \in {Num(1), NA}}
    \cup {[Base EXCEPT !.STRATA = Num(207)],
          [Base EXCEPT !.STATE = Num("NY"), !.STRATA = NA],
          [Base EXCEPT !.COMPLETE = Num(50)],
          [Base EXCEPT !.STATE = NA]}

InitPartition == InitWith({2016}, PartitionAgencies)

SpecPartition == InitPartition /\ [][Next]_vars

-----------------------------------------------------------------------------
(* aggregate_spotlite_to_state_long, one action per step *)

year_cols == <<"y2016", "y2020">>

group_keys == <<"state", "state_name">>

\* The texts of the state and state_name cells of the model's county files, in
\* the order groupby and sort_values compare them.
StateCodes == <<"CA", "NY">>

StateNames == <<"Calif.", "California", "New York">>

\* The keys of groupby(['state', 'state_name']): the pairs that occur in a row,
\* sorted; a row with NaN in either key belongs to no group.
GroupPairs(frame) ==
    LET occurs(s, n) ==
            \E i \in DOMAIN frame.rows :
               frame.rows[i]["state"] = Num(s) /\ frame.rows[i]["state_name"] = Num(n)
    IN Flatten([a \in DOMAIN StateCodes |->
                  [b \in DOMAIN SelectSeq(StateNames, LAMBDA n : occurs(StateCodes[a], n)) |->
                     <<StateCodes[a],
                       SelectSeq(StateNames, LAMBDA n : occurs(StateCodes[a], n))[b]>>]])

\* df.groupby(group_keys)[year_cols].sum().reset_index()
groupby_keys_sum(frame) ==
    LET keys == GroupPairs(frame)
        out == Range(group_keys) \cup Range(year_cols)
        group(k) == SelectSeq(frame.rows,
                              LAMBDA r : r["state"] = Num(k[1]) /\ r["state_name"] = Num(k[2]))
    IN [columns |-> out,
        rows |-> [i \in DOMAIN keys |->
                    [c \in out |->
                       CASE c = "state" -> Num(keys[i][1])
                         [] c = "state_name" -> Num(keys[i][2])
                         [] OTHER -> Num(SumCol(group(keys[i]), c))]]]

\* str.extract(r'y(\d{4})').astype(int) on the two labels melt produces.
YearOf(label) == CASE label = "y2016" -> 2016 [] label = "y2020" -> 2020

\* pd.melt(df_state, id_vars=group_keys, value_vars=year_cols, ...): the rows
\* of df_state once per year column, the year label turned into an int and
\* the column names into upper case.
melt(frame) ==
    [columns |-> {"STATE", "STATE_NAME", "YEAR", "USE_OF_FORCE_COUNT"},
     rows |-> Flatten([v \in DOMAIN year_cols |->
                [i \in DOMAIN frame.rows |->
                   [STATE |-> frame.rows[i]["state"],
                    STATE_NAME |-> frame.rows[i]["state_name"],
                    YEAR |-> Num(YearOf(year_cols[v])),
                    USE_OF_FORCE_COUNT |-> frame.rows[i][year_cols[v]]]]])]

StateRank(c) == CHOOSE a \in DOMAIN StateCodes : Num(StateCodes[a]) = c

Orders(n) == {p \in [1..n -> 1..n] : \A i, j \in 1..n : p[i] = p[j] => i = j}

\* sort_values(['STATE']) with the default, unstable sort: any order of the
\* rows in which STATE does not decrease.
sort_values(frame) ==
    {[frame EXCEPT !.rows = [i \in DOMAIN frame.rows |-> frame.rows[p[i]]]] :
        p \in {q \in Orders(Len(frame.rows)) :
                  \A i, j \in DOMAIN frame.rows :
                     i < j => StateRank(frame.rows[q[i]]["STATE"])
                                <= StateRank(frame.rows[q[j]]["STATE"])}}

SpotliteReadCsv ==
    /\ pc = "spotlite.read_csv"
    /\ df_county' = [columns |-> file.header, rows |-> file.rows]
    /\ pc' = "spotlite.groupby"
    /\ UNCHANGED <<file, return_strata_counts, dropped, lemas,
                   dem_by_state, binary_cols_by_state, lemas_by_state,
                   key, df_state, df_long>>

SpotliteGroupBy ==
    /\ pc = "spotlite.groupby"
    /\ df_state' = groupby_keys_sum(df_county)
    /\ pc' = "spotlite.melt"
    /\ UNCHANGED <<file, return_strata_counts, dropped, lemas,
                   dem_by_state, binary_cols_by_state, lemas_by_state,
                   key, df_county, df_long>>

SpotliteMelt ==
    /\ pc = "spotlite.melt"
    /\ df_long' = melt(df_state)
    /\ pc' = "spotlite.sort"
    /\ UNCHANGED <<file, return_strata_counts, dropped, lemas,
                   dem_by_state, binary_cols_by_state, lemas_by_state,
                   key, df_county, df_state>>

SpotliteSort ==
    /\ pc = "spotlite.sort"
    /\ df_long' \in sort_values(df_long)
    /\ pc' = "spotlite.done"
    /\ UNCHANGED <<file, return_strata_counts, dropped, lemas,
                   dem_by_state, binary_cols_by_state, lemas_by_state,
                   key, df_county, df_state>>

NextSpotlite ==
    \/ SpotliteReadCsv
    \/ SpotliteGroupBy
    \/ SpotliteMelt
    \/ SpotliteSort

(* County files: counties of CA under two spellings of the state name or
   without one, counties of NY, use-of-force counts per year. *)

Counties ==
    {[state |-> Num(k[1]), state_name |-> k[2], y2016 |-> Num(a), y2020 |-> Num(b)] :
        k \in {<<"CA", Num("California")>>, <<"CA", Num("Calif.")>>, <<"CA", NA>>,
               <<"NY", Num("New York")>>},
        a \in {1, 2}, b \in {0, 3}}

InitSpotlite ==
    /\ \E n \in 0..MaxRows : \E rs \in [1..n -> Counties] :
          file = [header |-> Range(group_keys) \cup Range(year_cols), rows |-> rs]
    /\ return_strata_counts = FALSE
    /\ pc = "spotlite.read_csv"
    /\ lemas = EmptyFrame
    /\ dropped = NA
    /\ dem_by_state = EmptyFrame
    /\ binary_cols_by_state = EmptyFrame
    /\ lemas_by_state = EmptyFrame
    /\ key = ""
    /\ df_county = EmptyFrame
    /\ df_state = EmptyFrame
    /\ df_long = EmptyFrame

SpecSpotlite == InitSpotlite /\ [][NextSpotlite]_vars

-----------------------------------------------------------------------------
(* Properties *)
-----------------------------------------------------------------------------
(* Properties *)

\* A quotient that is NaN, infinite, or a number in [0,1].
IsNaN(q) == q.den = 0 /\ q.num = 0

IsInf(q) == q.den = 0 /\ q.num # 0

InUnit(q) == q.den > 0 /\ 0 <= q.num /\ q.num <= q.den

\* The sum of the function f over a finite set I of row numbers.
RECURSIVE SumOver(_, _)
SumOver(I, f) ==
    IF I = {} THEN 0
    ELSE LET i == CHOOSE j \in I : TRUE
         IN f[i] + SumOver(I \ {i}, f)

\* The retained agencies of a state: the rows of lemas that carry it.
AgenciesOf(s) == {j \in DOMAIN lemas.rows : lemas.rows[j]["STATE"] = s}

\* The weight of each retained agency as a quantity (a missing weight adds nothing).
WeightOf ==
    [j \in DOMAIN lemas.rows |->
       IF IsNa(lemas.rows[j]["WEIGHT"]) THEN 0 ELSE Val(lemas.rows[j]["WEIGHT"])]

\* C1: in every output row each flag rate (CCRB, CFDBK_POLICY) is the weight of
\* the state's retained agencies whose flag is 1 divided by the weight of all
\* the state's retained agencies, those with a missing flag included.
C1_FlagRate ==
    pc = "done" =>
      \A i \in DOMAIN lemas_by_state.rows :
        \A flag \in {"CCRB", "CFDBK_POLICY"} :
          LET row == lemas_by_state.rows[i]
              all == AgenciesOf(row["STATE"])
              flagged == {j \in all : lemas.rows[j][flag] = Num(1)}
          IN row[flag] = Quot(SumOver(flagged, WeightOf), SumOver(all, WeightOf))

\* Two CA agencies with weights 10 and 20 and CCRB flags 1 and missing: the
\* rate of CA is 10/30.
C1_Witness ==
    /\ pc = "done"
    /\ Len(lemas.rows) = 2
    /\ \A j \in 1..2 : lemas.rows[j]["STATE"] = Num("CA")
    /\ lemas.rows[1]["WEIGHT"] = Num(10) /\ lemas.rows[1]["CCRB"] = Num(1)
    /\ lemas.rows[2]["WEIGHT"] = Num(20) /\ lemas.rows[2]["CCRB"] = NA
    /\ Len(lemas_by_state.rows) = 1
    /\ lemas_by_state.rows[1]["CCRB"] = [num |-> 1, den |-> 3]

\* The quality predicate of the aggregation on a cleaned agency row: sworn
\* officers, and a completion rate above 0.6 when the batch carries the field.
Retained(r) ==
    /\ \/ (r["FTSWORN"] # NA /\ Val(r["FTSWORN"]) > 0)
       \/ (r["PTSWORN"] # NA /\ Val(r["PTSWORN"]) >= 2)
    /\ "COMPLETE" \in DOMAIN r =>
          (r["COMPLETE"] # NA /\ Val(r["COMPLETE"]) > 60)

\* C2: with or without a COMPLETE column in the batch, the agencies left after
\* the filter step are exactly those with (FTSWORN > 0 or PTSWORN >= 2) and,
\* when the column is there, COMPLETE > 0.6.
C2_RetainedIff ==
    pc = "strata" => lemas.rows = SelectSeq(read_csv(file).rows, Retained)

\* The value of a cell as a quantity in a sum (a missing value adds nothing).
Qty(c) == IF IsNa(c) THEN 0 ELSE Val(c)

\* C3: the W_FTSWORN of the output rows add up to the sum of FTSWORN x WEIGHT
\* over all retained agencies, those without a state or without FTSWORN included.
C3_Conservation ==
    pc = "done" =>
      SumOver(DOMAIN lemas_by_state.rows,
              [i \in DOMAIN lemas_by_state.rows |-> Qty(lemas_by_state.rows[i]["W_FTSWORN"])])
      = SumOver(DOMAIN lemas.rows,
                [j \in DOMAIN lemas.rows |->
                   Qty(lemas.rows[j]["FTSWORN"]) * Qty(lemas.rows[j]["WEIGHT"])])

Shares == {"%_FEMALE", "%_BLACK", "%_HISP"}

\* C4: in an output row whose W_FTSWORN is zero the three shares are missing,
\* and no share of any row is infinite.
C4_ZeroDenominatorUndefined ==
    pc = "done" =>
      \A i \in DOMAIN lemas_by_state.rows : \A c \in Shares :
        LET row == lemas_by_state.rows[i]
        IN /\ row["W_FTSWORN"] = Num(0) => IsNaN(row[c])
           /\ ~IsInf(row[c])

\* C5: every demographic share of every output row is in [0,1] or missing.
C5_SharesInUnit ==
    pc = "done" =>
      \A i \in DOMAIN lemas_by_state.rows : \A c \in Shares :
        InUnit(lemas_by_state.rows[i][c]) \/ IsNaN(lemas_by_state.rows[i][c])

\* C6: every flag rate of every output row is in [0,1] or missing.
C6_RatesInUnit ==
    pc = "done" =>
      \A i \in DOMAIN lemas_by_state.rows : \A c \in {"CCRB", "CFDBK_POLICY"} :
        InUnit(lemas_by_state.rows[i][c]) \/ IsNaN(lemas_by_state.rows[i][c])

\* The lookup table of the strata harmonization, as pairs (2016 code, 2020 code).
HarmonizedPairs ==
    {<<101, 1>>, <<102, 2>>, <<103, 3>>, <<104, 4>>, <<105, 5>>, <<106, 6>>, <<107, 7>>,
     <<201, 8>>, <<202, 9>>, <<203, 10>>, <<204, 11>>, <<205, 12>>, <<206, 13>>,
     <<207, 13>>, <<301, 15>>}

Harmonized(c) ==
    IF c # NA /\ \E q \in HarmonizedPairs : q[1] = Val(c)
    THEN Num((CHOOSE q \in HarmonizedPairs : q[1] = Val(c))[2])
    ELSE c

\* C7: the harmonization step replaces every strata value by its image under the
\* table, values outside the table unchanged, when the largest strata value of
\* the filtered agencies exceeds 15, and changes nothing otherwise.
C7_Harmonization ==
    [][pc = "strata" =>
         LET above == \E j \in DOMAIN lemas.rows :
                         lemas.rows[j]["STRATA"] # NA /\ Val(lemas.rows[j]["STRATA"]) > 15
         IN /\ Len(lemas'.rows) = Len(lemas.rows)
            /\ \A j \in DOMAIN lemas.rows :
                 lemas'.rows[j] =
                   [lemas.rows[j] EXCEPT !["STRATA"] = IF above THEN Harmonized(@) ELSE @]
    ]_vars

\* A file with the codes 207 and 5 has been harmonized to 13 and 5.
C7_Witness ==
    /\ pc = "apply_weight"
    /\ Len(file.rows) = 2 /\ Len(lemas.rows) = 2
    /\ file.rows[1]["STRATA"] = Num(207) /\ lemas.rows[1]["STRATA"] = Num(13)
    /\ file.rows[2]["STRATA"] = Num(5) /\ lemas.rows[2]["STRATA"] = Num(5)

\* The strata codes carried by a retained agency that has a state.
CountedCodes ==
    {Val(lemas.rows[j]["STRATA"]) :
        j \in {k \in DOMAIN lemas.rows :
                 lemas.rows[k]["STATE"] # NA /\ lemas.rows[k]["STRATA"] # NA}}

\* The number of a state's retained agencies with a strata code.
AgenciesWith(s, code) ==
    Cardinality({j \in AgenciesOf(s) : lemas.rows[j]["STRATA"] = Num(code)})

LabelOf(code) == StrataLabel(code, lemas.strata_dtype)

\* C8, as stated: with the strata breakdown requested, every output row carries
\* for each strata code the number of the state's retained agencies with that
\* code, and a pair without agencies is absent or missing, never a 0.
C8_SparseCounts ==
    (pc = "done" /\ return_strata_counts) =>
      \A i \in DOMAIN lemas_by_state.rows : \A code \in CountedCodes :
        LET row == lemas_by_state.rows[i]
            n == AgenciesWith(row["STATE"], code)
        IN IF n > 0
           THEN LabelOf(code) \in DOMAIN row /\ row[LabelOf(code)] = Num(n)
           ELSE LabelOf(code) \notin DOMAIN row \/ row[LabelOf(code)] = NA

\* C8, amended: the output has one STRATA column for every code carried by a
\* retained agency that has a state; in the row of a state with at least one
\* retained agency that has a strata code each of them holds the number of the
\* state's retained agencies with that code, 0 when there is none; in the row
\* of a state whose retained agencies all lack a strata code they are missing.
C8_DenseCounts ==
    (pc = "done" /\ return_strata_counts) =>
      \A i \in DOMAIN lemas_by_state.rows :
        LET row == lemas_by_state.rows[i]
            coded == \E j \in AgenciesOf(row["STATE"]) : lemas.rows[j]["STRATA"] # NA
        IN /\ DOMAIN row \ ordered_cols = {LabelOf(code) : code \in CountedCodes}
           /\ \A code \in CountedCodes :
                row[LabelOf(code)] =
                  IF coded THEN Num(AgenciesWith(row["STATE"], code)) ELSE NA

\* Two states with different strata codes: each row holds a 0 for the code of
\* the other state.
C8_Witness ==
    /\ pc = "done" /\ return_strata_counts
    /\ Len(lemas_by_state.rows) = 2
    /\ \E code \in CountedCodes :
         /\ AgenciesWith(Num("CA"), code) = 0
         /\ lemas_by_state.rows[1][LabelOf(code)] = Num(0)
         /\ lemas_by_state.rows[2][LabelOf(code)] = Num(1)

Sentinels == {-8, -9}

\* The file with every nonresponse code replaced by a blank cell.
Blanked(f) ==
    [f EXCEPT !.rows =
       [i \in DOMAIN f.rows |->
          [h \in f.header |->
             LET c == f.rows[i][h]
             IN IF c = NA THEN NA
                ELSE IF h = "STATE"
                     THEN (IF c = Num("-8") \/ c = Num("-9") THEN NA ELSE c)
                     ELSE (IF Val(c) \in Sentinels THEN NA ELSE c)]]]

\* C9: a -8 or -9 in any field of the file is missing in the table (no cell of
\* the cleaned table holds one), and the result is the one obtained from the
\* file with those cells blank: no sum, weighted value, rate or filter
\* comparison uses a -8 or -9 as a number.
C9_SentinelsMissing ==
    /\ pc # "read_csv" =>
         \A j \in DOMAIN lemas.rows :
           /\ \A c \in (DOMAIN Base) \ {"STATE"} :
                lemas.rows[j][c] = NA \/ Val(lemas.rows[j][c]) \notin Sentinels
           /\ lemas.rows[j]["STATE"] \notin {Num("-8"), Num("-9")}
    /\ pc \in {"done", "KeyError"} =>
         LET clean == read_lemas_weight(Blanked(file), return_strata_counts)
         IN /\ lemas_by_state = clean.frame
            /\ (pc = "KeyError") <=> (clean.raised = "KeyError")

\* A finished run on a file of two agencies, one with FTSWORN -8 and one with
\* the CCRB flag -8, both retained.
C9_Witness ==
    /\ pc = "done"
    /\ Len(file.rows) = 2 /\ Len(lemas.rows) = 2
    /\ file.rows[1]["FTSWORN"] = Num(-8) /\ lemas.rows[1]["FTSWORN"] = NA
    /\ file.rows[2]["POL_CCRB"] = Num(-8) /\ lemas.rows[2]["CCRB"] = NA

Counts == {"FTSWORN", "PTSWORN", "PERS_FEMALE", "PERS_BLACK_FEM", "PERS_BLACK_MALE",
           "PERS_HISP_FEM", "PERS_HISP_MALE"}

\* C10: every agency row that is retained and aggregated has counts that are
\* non-negative or missing, and a weight that is present and strictly positive.
C10_CleanRetainedRows ==
    pc = "done" =>
      \A j \in DOMAIN lemas.rows :
        /\ \A c \in Counts : lemas.rows[j][c] = NA \/ Val(lemas.rows[j][c]) >= 0
        /\ lemas.rows[j]["WEIGHT"] # NA /\ Val(lemas.rows[j]["WEIGHT"]) > 0

\* C11: a run whose table is empty after the filter (a file without agency rows,
\* or one whose rows the filter all drops) ends with a returned frame of zero
\* rows and raises nothing.
C11_EmptyInEmptyOut ==
    (pc \in {"done", "KeyError"} /\ lemas.rows = <<>>) =>
       (pc = "done" /\ lemas_by_state.rows = <<>>)

\* The fields an input batch must carry, under their unified names.
RequiredFields ==
    {"STATE", "STRATA", "FTSWORN", "PTSWORN", "PERS_FEMALE", "PERS_BLACK_FEM",
     "PERS_BLACK_MALE", "PERS_HISP_FEM", "PERS_HISP_MALE", "CCRB", "CFDBK_POLICY", "WEIGHT"}

MissingFields == RequiredFields \ {rename_columns(h) : h \in file.header}

\* C12: when the file lacks a required field the run never returns a result,
\* and the error it ends in names a field the file lacks.
C12_MissingFieldFails ==
    MissingFields # {} =>
       /\ pc # "done"
       /\ pc = "KeyError" => key \in MissingFields

\* C13: the harmonization step applied to its own output changes nothing, and
\* applied to a table whose strata values are all at most 15 it changes nothing.
C13_Idempotent ==
    /\ pc = "apply_weight" => HarmonizeStrata(lemas) = lemas
    /\ (pc = "strata" /\ \A j \in DOMAIN lemas.rows :
                            lemas.rows[j]["STRATA"] = NA \/ Val(lemas.rows[j]["STRATA"]) <= 15)
         => HarmonizeStrata(lemas) = lemas

\* The output of the step on a file with the codes 301 and 999: 15 and 999, a
\* table whose largest value is still above 15, which the step maps once more.
C13_Witness ==
    /\ pc = "apply_weight"
    /\ Len(file.rows) = 2 /\ Len(lemas.rows) = 2
    /\ file.rows[1]["STRATA"] = Num(301) /\ lemas.rows[1]["STRATA"] = Num(15)
    /\ file.rows[2]["STRATA"] = Num(999) /\ lemas.rows[2]["STRATA"] = Num(999)
    /\ HarmonizeStrata(lemas) = lemas

\* The STATE column of a frame, as a sequence.
StateColumn(frame) == [i \in DOMAIN frame.rows |-> frame.rows[i]["STATE"]]

\* The states of the agencies of the file that pass the quality predicate.
RetainedStates ==
    LET rows == read_csv(file).rows
    IN {rows[j]["STATE"] : j \in {k \in DOMAIN rows : Retained(rows[k])}} \ {NA}

\* C14: the returned frame has one row for each state with a retained agency,
\* no other row and no state twice; the merged frame has the states of the
\* per-state sums and of the per-state flag rates, each once.
C14_OneRowPerState ==
    pc = "done" =>
      /\ Range(StateColumn(lemas_by_state)) = RetainedStates
      /\ Len(lemas_by_state.rows) = Cardinality(RetainedStates)
      /\ StateColumn(lemas_by_state) = StateColumn(dem_by_state)
      /\ StateColumn(lemas_by_state) = StateColumn(binary_cols_by_state)

\* A file with a retained CA agency and a dropped NY agency: one row, CA.
C14_Witness ==
    /\ pc = "done"
    /\ Len(file.rows) = 2 /\ Len(lemas.rows) = 1
    /\ file.rows[1]["STATE"] = Num("NY") /\ file.rows[2]["STATE"] = Num("CA")
    /\ StateColumn(lemas_by_state) = <<Num("CA")>>

\* The full-time sworn officers of each retained agency (a missing count adds
\* nothing).
OfficersOf == [j \in DOMAIN lemas.rows |-> Qty(lemas.rows[j]["FTSWORN"])]

\* C15: in every row read_lemas returns, each flag rate (CCRB, CFDBK_POLICY) is
\* the number of full-time sworn officers of the state's retained agencies whose
\* flag is 1 divided by the number of full-time sworn officers of all the
\* state's retained agencies.
C15_OfficerWeightedRate ==
    pc = "read_lemas.done" =>
      \A i \in DOMAIN lemas_by_state.rows :
        \A flag \in {"CCRB", "CFDBK_POLICY"} :
          LET row == lemas_by_state.rows[i]
              all == AgenciesOf(row["STATE"])
              flagged == {j \in all : lemas.rows[j][flag] = Num(1)}
          IN row[flag] = Quot(SumOver(flagged, OfficersOf), SumOver(all, OfficersOf))

\* The STATE cells of the file, and the file cut down to the records of one.
PartitionKeys == {file.rows[i]["STATE"] : i \in DOMAIN file.rows}

Partition(k) == [file EXCEPT !.rows = SelectSeq(@, LAMBDA r : r["STATE"] = k)]

\* The rows a run returns; a run that raises returns none.
RowsOf(result) == IF result.raised = "" THEN result.frame.rows ELSE <<>>

\* The run of the whole function on one partition.
PartitionRun(k) == read_lemas_weight(Partition(k), return_strata_counts)

\* The outcome of the run on the whole file.
Outcome ==
    [raised |-> IF pc = "KeyError" THEN "KeyError" ELSE "", frame |-> lemas_by_state]

\* The file with its records in another order.
Reordered(p) == [file EXCEPT !.rows = [i \in DOMAIN file.rows |-> file.rows[p[i]]]]

OrderIndependent ==
    \A p \in Orders(Len(file.rows)) :
       read_lemas_weight(Reordered(p), return_strata_counts) = Outcome

Restricted(row, cols) == [c \in cols |-> row[c]]

\* The harmonized table of a partition: its strata codes and the dtype that
\* labels them.
PartitionTable(k) == HarmonizeStrata(QualityFilter(read_csv(Partition(k))))

CountiesOf(s) == {i \in DOMAIN file.rows : file.rows[i]["state"] = s}

LongRows(s, y) ==
    {i \in DOMAIN df_long.rows :
        df_long.rows[i]["STATE"] = s /\ df_long.rows[i]["YEAR"] = Num(y)}

\* C17: the result has exactly one row for each state of the county file and
\* each of the years 2016 and 2020, no other row, and the count of the row is
\* the sum of that year's column over all the county rows of the state.
C17_OneRowPerStateYear ==
    pc = "spotlite.done" =>
      /\ \A s \in {file.rows[i]["state"] : i \in DOMAIN file.rows} :
           \A v \in DOMAIN year_cols :
             LET y == YearOf(year_cols[v])
             IN /\ Cardinality(LongRows(s, y)) = 1
                /\ \A i \in LongRows(s, y) :
                     df_long.rows[i]["USE_OF_FORCE_COUNT"]
                       = Num(SumOver(CountiesOf(s),
                                     [j \in DOMAIN file.rows |-> Qty(file.rows[j][year_cols[v]])]))
      /\ Len(df_long.rows)
           = 2 * Cardinality({file.rows[i]["state"] : i \in DOMAIN file.rows})

====
